---- MODULE Spec2Model ----
(***************************************************************************)
(* Model of pikaraoke/lib/ffmpeg.py: build_ffmpeg_cmd, the function that   *)
(* turns a file-resolver object and the playback options into an ffmpeg    *)
(* output node (codec choices, audio filter graph, video path, container   *)
(* flags), and supports_hardware_h264_encoding, the probe it calls.        *)
(*                                                                         *)
(* Representation of the Python values:                                    *)
(*  - a float is [kind, ticks]: kind "num" is the finite value             *)
(*    ticks / (1000 * TicksPerMs) seconds, "nan" and "inf" are the floats  *)
(*    nan and +inf, "bad" is an argument float() cannot convert;           *)
(*  - a volume is [kind, pct]: "num" is a number float() accepts, "bad"    *)
(*    is anything float() rejects;                                         *)
(*  - an ffmpeg-python stream is [sel, chain]: the input stream selector   *)
(*    and the filter nodes applied to it so far, oldest first;             *)
(*  - a filter node is [name, args, opt].                                  *)
(***************************************************************************)
EXTENDS Integers, Sequences, FiniteSets, TLC

VARIABLES fr, opts, hwProbe, calls, result, prevResult

vars == <<fr, opts, hwProbe, calls, result, prevResult>>

\* ---------------------------------------------------------------- bounds
MaxCalls == 2
MaxSemitones == 1
MaxAvsyncTicks == 2
TicksPerMs == 2

\* ------------------------------------------------------ program constants
DefaultVolume == 40
LoudnormI == -16
LoudnormTpTenths == -15
LoudnormLra == 11
CdgFps == 25
CdgScaleHeight == 720

\* ---------------------------------------------------------------- inputs
FileExtensions == {".mp4", ".webm", ".mkv"}

Requests ==
    [file_extension : FileExtensions,
     cdg_file_path  : {"None", "song.cdg"},
     audio_streams  : {1, 2}]

AvsyncValues ==
    [kind : {"num"}, ticks : (-MaxAvsyncTicks)..MaxAvsyncTicks]
        \cup [kind : {"nan", "inf", "bad"}, ticks : {0}]

VolumeValues ==
    [kind : {"num"}, pct : {DefaultVolume, 100}] \cup [kind : {"bad"}, pct : {0}]

Options ==
    [semitones                    : (-MaxSemitones)..MaxSemitones,
     normalize_audio              : BOOLEAN,
     buffer_fully_before_playback : BOOLEAN,
     avsync                       : AvsyncValues,
     cdg_pixel_scaling            : BOOLEAN,
     original_sound               : BOOLEAN,
     original_sound_volume        : VolumeValues]

\* ----------------------------------------------------- float arithmetic
\* float(avsync), line 25: raises ValueError on an unconvertible argument
FloatRaises(x) == x.kind = "bad"

\* x != 0, x > 0, x < 0 on floats (every comparison with nan but != is false)
FloatNe0(x) == x.kind \in {"nan", "inf"} \/ (x.kind = "num" /\ x.ticks # 0)
FloatGt0(x) == x.kind = "inf" \/ (x.kind = "num" /\ x.ticks > 0)
FloatLt0(x) == x.kind = "num" /\ x.ticks < 0

\* int(avsync * 1000), line 62, for avsync > 0: truncation to whole ms;
\* int() of an infinite float raises OverflowError
IntMsRaises(x) == x.kind = "inf"
IntMs(x) == x.ticks \div TicksPerMs

\* --------------------------------------------------------------- streams
Node(name, args, opt) == [name |-> name, args |-> args, opt |-> opt]

Stream(sel) == [sel |-> sel, chain |-> <<>>]

Filter(stream, node) == [stream EXCEPT !.chain = Append(@, node)]

\* ------------------------------------------------- capability probe
\* The environment the probe looks at: what `ffmpeg -codecs` would answer.
ProbeResults == {"not_installed", "software_only", "v4l2m2m"}

\* supports_hardware_h264_encoding(), lines 165-172: FileNotFoundError
\* gives False, otherwise "h264_v4l2m2m" in the codec listing
supports_hardware_h264_encoding(env) == env = "v4l2m2m"

\* line 27
default_vcodec(env) ==
    IF supports_hardware_h264_encoding(env) THEN "h264_v4l2m2m" ELSE "libx264"

\* variants of lines 30-32: one that copies mp4 only, one that never copies
vcodec_mp4_only(file_extension, dflt) ==
    IF file_extension = ".mp4" THEN "copy" ELSE dflt

vcodec_never_copy(file_extension, dflt) == dflt

\* lines 30-32
vcodec(file_extension, dflt) ==
    IF file_extension = ".mp4" \/ file_extension = ".webm" THEN "copy" ELSE dflt

\* line 36 and line 52
is_transposed(semitones) == semitones # 0

\* variant of line 37 that leaves original_sound out of the test
acodec_without_remix(o, avsync) ==
    IF o.semitones # 0 \/ o.normalize_audio \/ FloatNe0(avsync)
    THEN "aac" ELSE "copy"

\* line 37; avsync is the float of line 25
acodec(o, avsync) ==
    IF is_transposed(o.semitones) \/ o.normalize_audio \/ FloatNe0(avsync)
           \/ o.original_sound
    THEN "aac" ELSE "copy"

\* line 53
needs_processing(o, avsync) ==
    is_transposed(o.semitones) \/ o.normalize_audio \/ FloatNe0(avsync)

\* ------------------------------------------------- stream selection
\* ffmpeg.input(fr.file_path), line 39: the input node's stream, no selector
Input == Stream("")

\* Stream.__getitem__ of ffmpeg-python (lines 45-46): it only records the
\* selector on a stream that has none yet; it raises when the stream already
\* carries a selector and never looks at the file
GetItemRaises(stream) == stream.sel # ""
GetItem(stream, index) == [stream EXCEPT !.sel = index]

\* lines 44-49: a:0 and a:1, or input.audio twice when indexing raised
SelectStreams(input) ==
    IF GetItemRaises(input)
    THEN [orig |-> [input EXCEPT !.sel = "a"], proc |-> [input EXCEPT !.sel = "a"]]
    ELSE [orig |-> GetItem(input, "a:0"), proc |-> GetItem(input, "a:1")]

\* ------------------------------------------------- audio graph
\* lines 61-67, one stream: adelay "<ms>|<ms>" or atrim start=-avsync
SyncCompensate(stream, avsync) ==
    IF FloatGt0(avsync)
    THEN Filter(stream, Node("adelay", <<IntMs(avsync), IntMs(avsync)>>, ""))
    ELSE IF FloatLt0(avsync)
         THEN Filter(stream, Node("atrim", <<-avsync.ticks>>, "start"))
         ELSE stream

\* lines 63 and 66
SyncProc(proc_audio, avsync) == SyncCompensate(proc_audio, avsync)

\* variant of lines 64 and 67 that leaves the original stream unsynchronised
SyncOrigSkipped(orig_audio, avsync) == orig_audio

\* lines 64 and 67
SyncOrig(orig_audio, avsync) == SyncCompensate(orig_audio, avsync)

\* lines 70 and 73: rubberband with pitch = 2 ** (semitones / 12); the node
\* carries the exponent in twelfths of an octave
Transpose(stream, semitones) ==
    IF is_transposed(semitones)
    THEN Filter(stream, Node("rubberband", <<semitones>>, "pitch"))
    ELSE stream

\* line 74: loudnorm i=-16, tp=-1.5, lra=11
Normalize(stream, normalize_audio) ==
    IF normalize_audio
    THEN Filter(stream,
                Node("loudnorm", <<LoudnormI, LoudnormTpTenths, LoudnormLra>>, ""))
    ELSE stream

\* variant of lines 73-74 with the two filters in the other order
ProcessProcNormalizeFirst(proc_audio, o) ==
    IF o.semitones # 0
    THEN Filter(Normalize(proc_audio, o.normalize_audio),
                Node("rubberband", <<o.semitones>>, "pitch"))
    ELSE Normalize(proc_audio, o.normalize_audio)

\* lines 73-74, in that order
ProcessProc(proc_audio, o) ==
    Normalize(Transpose(proc_audio, o.semitones), o.normalize_audio)

\* variant of lines 78-81 whose fallback is the default volume of line 23
VolFallbackDefault(volume) ==
    IF volume.kind = "bad" THEN <<DefaultVolume, 100>> ELSE <<volume.pct, 100>>

\* lines 78-81: vol as the fraction <<numerator, denominator>>
Vol(volume) ==
    IF volume.kind = "bad" THEN <<1, 2>> ELSE <<volume.pct, 100>>

\* line 82
ScaledOrig(orig_audio, volume) ==
    Filter(orig_audio, Node("volume", Vol(volume), ""))

\* line 84: ffmpeg.filter([proc_audio, scaled_orig], "amix", inputs=2, ...)
Amix(proc_audio, scaled_orig) ==
    [merge |-> TRUE, inputs |-> <<proc_audio, scaled_orig>>,
     mix_inputs |-> 2, dropout_transition |-> 0]

\* lines 58 and 88: audio = proc_audio
Single(proc_audio) ==
    [merge |-> FALSE, inputs |-> <<proc_audio>>,
     mix_inputs |-> 0, dropout_transition |-> 0]

\* lines 77-88
Mix(proc_audio, orig_audio, o) ==
    IF o.original_sound
    THEN Amix(proc_audio, ScaledOrig(orig_audio, o.original_sound_volume))
    ELSE Single(proc_audio)

\* lines 57-88: the locals orig_audio, proc_audio and audio at line 89
AudioGraph(streams, o, avsync) ==
    IF ~needs_processing(o, avsync) /\ ~o.original_sound
    THEN [orig_audio |-> streams.orig, proc_audio |-> streams.proc,
          audio |-> Single(streams.proc)]
    ELSE LET orig == SyncOrig(streams.orig, avsync)
             proc == ProcessProc(SyncProc(streams.proc, avsync), o)
         IN  [orig_audio |-> orig, proc_audio |-> proc,
              audio |-> Mix(proc, orig, o)]

\* line 62 is reached with an infinite avsync: int() raises OverflowError
AudioGraphRaises(o, avsync) ==
    /\ needs_processing(o, avsync) \/ o.original_sound
    /\ FloatGt0(avsync)
    /\ IntMsRaises(avsync)

\* ------------------------------------------------- video path and output
\* variant of line 92 that always streams fragments
movflags_always_fragmented(buffer_fully_before_playback) ==
    "frag_keyframe+default_base_moof"

\* line 92
movflags(buffer_fully_before_playback) ==
    IF buffer_fully_before_playback
    THEN "+faststart" ELSE "frag_keyframe+default_base_moof"

\* lines 97-101: cdg_input.video.filter("fps", fps=25)[.filter("scale", -1, 720,
\* flags="neighbor")]
CdgVideo(cdg_pixel_scaling) ==
    [src |-> "cdg_input",
     chain |-> IF cdg_pixel_scaling
               THEN <<Node("fps", <<CdgFps>>, ""),
                      Node("scale", <<-1, CdgScaleHeight>>, "neighbor")>>
               ELSE <<Node("fps", <<CdgFps>>, "")>>]

\* line 120: video = input.video
SourceVideo == [src |-> "input", chain |-> <<>>]

\* variant of lines 106-118 that keeps the bitrate of the source-video path
CdgOutputSourceBitrate(audio, o) ==
    [audio |-> audio, video |-> CdgVideo(o.cdg_pixel_scaling),
     vcodec |-> "libx264", acodec |-> "aac", preset |-> "ultrafast",
     pix_fmt |-> "yuv420p", listen |-> 1, f |-> "mp4", video_bitrate |-> "15M",
     movflags |-> IF o.buffer_fully_before_playback
                  THEN "+faststart" ELSE "frag_keyframe+default_base_moof"]

\* lines 106-118
CdgOutput(audio, o) ==
    [audio |-> audio, video |-> CdgVideo(o.cdg_pixel_scaling),
     vcodec |-> "libx264", acodec |-> "aac", preset |-> "ultrafast",
     pix_fmt |-> "yuv420p", listen |-> 1, f |-> "mp4", video_bitrate |-> "500k",
     movflags |-> movflags(o.buffer_fully_before_playback)]

\* lines 120-132; no pix_fmt argument is passed
SourceOutput(req, audio, o, avsync, env) ==
    [audio |-> audio, video |-> SourceVideo,
     vcodec |-> vcodec(req.file_extension, default_vcodec(env)),
     acodec |-> acodec(o, avsync), preset |-> "ultrafast",
     pix_fmt |-> "", listen |-> 1, f |-> "mp4", video_bitrate |-> "15M",
     movflags |-> movflags(o.buffer_fully_before_playback)]

\* line 94
HasCdg(req) == req.cdg_file_path # "None"

\* lines 94-132
Output(req, audio, o, avsync, env) ==
    IF HasCdg(req) THEN CdgOutput(audio, o)
    ELSE SourceOutput(req, audio, o, avsync, env)

\* ------------------------------------------------- build_ffmpeg_cmd
NoAudio == Single(Stream(""))

NoPlan ==
    [audio |-> NoAudio, video |-> SourceVideo, vcodec |-> "", acodec |-> "",
     preset |-> "", pix_fmt |-> "", listen |-> 0, f |-> "", video_bitrate |-> "",
     movflags |-> ""]

NoResult ==
    [status |-> "none", error |-> "", hw |-> FALSE, orig_audio |-> Stream(""),
     proc_audio |-> Stream(""), plan |-> NoPlan]

\* What one call does, lines 25-136: it raises at line 25 or at line 62, or it
\* returns the output node.  hw is what the probe called at line 27 answered
\* (FALSE when the call ended before it); orig_audio and proc_audio are the
\* locals at line 89.
Call(req, o, env) ==
    IF FloatRaises(o.avsync)
    THEN [NoResult EXCEPT !.status = "raised", !.error = "ValueError"]
    ELSE IF AudioGraphRaises(o, o.avsync)
    THEN [NoResult EXCEPT !.status = "raised", !.error = "OverflowError",
                          !.hw = supports_hardware_h264_encoding(env)]
    ELSE LET g == AudioGraph(SelectStreams(Input), o, o.avsync)
         IN  [status |-> "returned", error |-> "",
              hw |-> supports_hardware_h264_encoding(env),
              orig_audio |-> g.orig_audio, proc_audio |-> g.proc_audio,
              plan |-> Output(req, g.audio, o, o.avsync, env)]

\* ------------------------------------------------- state machine
Init ==
    /\ fr \in Requests
    /\ opts \in Options
    /\ hwProbe \in ProbeResults
    /\ calls = 0
    /\ result = NoResult
    /\ prevResult = NoResult

\* one invocation of build_ffmpeg_cmd(fr, **opts)
build_ffmpeg_cmd ==
    /\ calls < MaxCalls
    /\ calls' = calls + 1
    /\ prevResult' = result
    /\ result' = Call(fr, opts, hwProbe)
    /\ UNCHANGED <<fr, opts, hwProbe>>

\* the environment changes what `ffmpeg -codecs` answers (ffmpeg installed,
\* removed or replaced by another build) between two invocations
ProbeChange ==
    /\ hwProbe' \in ProbeResults \ {hwProbe}
    /\ UNCHANGED <<fr, opts, calls, result, prevResult>>

Next == build_ffmpeg_cmd \/ ProbeChange

Spec == Init /\ [][Next]_vars

\* ------------------------------------------------- vocabulary of the claims
Returned == result.status = "returned"

plan == result.plan

AvsyncIsZero == opts.avsync.kind = "num" /\ opts.avsync.ticks = 0
AvsyncIsPositive == opts.avsync.kind = "num" /\ opts.avsync.ticks > 0
AvsyncIsNegative == opts.avsync.kind = "num" /\ opts.avsync.ticks < 0

AllAudioOptionsOff ==
    /\ opts.semitones = 0
    /\ ~opts.normalize_audio
    /\ AvsyncIsZero
    /\ ~opts.original_sound

NoProcessingOption ==
    opts.semitones = 0 /\ ~opts.normalize_audio /\ AvsyncIsZero

NativeContainer == fr.file_extension \in {".mp4", ".webm"}

SidecarPresent == fr.cdg_file_path # "None"

Names(chain) == [i \in 1..Len(chain) |-> chain[i].name]

HasNode(chain, name) == \E i \in 1..Len(chain) : chain[i].name = name

\* no filter node and no merge node in the audio of the plan
GraphEmpty ==
    /\ ~plan.audio.merge
    /\ \A i \in 1..Len(plan.audio.inputs) : plan.audio.inputs[i].chain = <<>>

\* the nodes sync compensation is expected to put on a stream
SyncNames ==
    IF AvsyncIsPositive THEN <<"adelay">>
    ELSE IF AvsyncIsNegative THEN <<"atrim">> ELSE <<>>

SameOutcome(a, b) ==
    a.status = b.status /\ a.error = b.error /\ a.plan = b.plan

\* ------------------------------------------------------------------- C1
\* C1 as claimed: on every path the audio codec is copy exactly when the
\* audio graph is empty; with all four audio options off it is copy and the
\* graph is empty, with any of them on it is aac.
C1_AsClaimed ==
    Returned =>
        /\ (plan.acodec = "copy") <=> GraphEmpty
        /\ AllAudioOptionsOff => plan.acodec = "copy" /\ GraphEmpty
        /\ ~AllAudioOptionsOff => plan.acodec = "aac"

\* C1 amended: without a sidecar the audio codec is copy exactly when
\* semitones = 0, normalize is off, avsync = 0 and remix is off, and aac
\* otherwise; with those four off the audio graph is empty on both paths and
\* with one of them on (avsync a finite number) it is not; with a sidecar the
\* audio codec is aac whatever the options, also when the graph is empty.
C1_CopyIffNoAudioOption ==
    Returned =>
        /\ ~SidecarPresent => ((plan.acodec = "copy") <=> AllAudioOptionsOff)
        /\ ~SidecarPresent => plan.acodec \in {"copy", "aac"}
        /\ SidecarPresent => plan.acodec = "aac"
        /\ AllAudioOptionsOff => GraphEmpty
        /\ (~AllAudioOptionsOff /\ opts.avsync.kind = "num") => ~GraphEmpty

C1_Witness ==
    /\ Returned /\ ~SidecarPresent /\ AllAudioOptionsOff
    /\ plan.acodec = "copy" /\ GraphEmpty

\* ------------------------------------------------------------------- C2
\* C2: without a sidecar the video codec is copy for .mp4 and .webm whatever
\* the probe answered, and for any other container h264_v4l2m2m when the
\* probe found the hardware encoder and libx264 when it did not.
C2_VideoCodec ==
    (Returned /\ ~SidecarPresent) =>
        /\ NativeContainer => plan.vcodec = "copy"
        /\ ~NativeContainer =>
               plan.vcodec = IF result.hw
                             THEN "h264_v4l2m2m" ELSE "libx264"

C2_Witness ==
    /\ Returned /\ ~SidecarPresent
    /\ fr.file_extension = ".webm" /\ result.hw
    /\ plan.vcodec = "copy"

\* ------------------------------------------------------------------- C3
\* C3: with a sidecar the video of the plan is the sidecar chain (fps first)
\* and the codecs, preset, pixel format and bitrate are libx264, aac,
\* ultrafast, yuv420p, 500k whatever the container, the probe and the
\* options; without one the video is the untouched source video stream.
C3_SidecarPath ==
    Returned =>
        /\ SidecarPresent =>
               /\ plan.video.src = "cdg_input"
               /\ Len(plan.video.chain) >= 1
               /\ plan.video.chain[1].name = "fps"
               /\ plan.vcodec = "libx264"
               /\ plan.acodec = "aac"
               /\ plan.preset = "ultrafast"
               /\ plan.pix_fmt = "yuv420p"
               /\ plan.video_bitrate = "500k"
        /\ ~SidecarPresent =>
               /\ plan.video.src = "input"
               /\ plan.video.chain = <<>>

C3_Witness ==
    /\ Returned /\ SidecarPresent
    /\ fr.file_extension = ".mp4" /\ result.hw
    /\ AllAudioOptionsOff
    /\ plan.vcodec = "libx264" /\ plan.video.src = "cdg_input"

\* ------------------------------------------------------------------- C4
\* C4: with remix on, the audio of the plan is one amix node (inputs=2,
\* dropout_transition=0) over the processed chain and the original stream
\* followed by one volume node of ratio volume/100, 1/2 when the volume does
\* not parse; with remix off there is no volume and no amix node and the audio
\* is the processed chain.  With remix on and nothing to process, the
\* processed input of the merge carries no filter.
C4_Remix ==
    Returned =>
        /\ opts.original_sound =>
               /\ plan.audio.merge
               /\ plan.audio.mix_inputs = 2
               /\ plan.audio.dropout_transition = 0
               /\ Len(plan.audio.inputs) = 2
               /\ plan.audio.inputs[1] = result.proc_audio
               /\ ~HasNode(plan.audio.inputs[1].chain, "volume")
               /\ plan.audio.inputs[2].sel = result.orig_audio.sel
               /\ LET chain == plan.audio.inputs[2].chain
                      ratio == chain[Len(chain)].args
                      v == opts.original_sound_volume
                  IN  /\ Len(chain) = Len(result.orig_audio.chain) + 1
                      /\ SubSeq(chain, 1, Len(chain) - 1) = result.orig_audio.chain
                      /\ chain[Len(chain)].name = "volume"
                      /\ ~HasNode(result.orig_audio.chain, "volume")
                      /\ v.kind = "num" => ratio[1] * 100 = v.pct * ratio[2]
                      /\ v.kind = "bad" => ratio[1] * 2 = ratio[2]
               /\ NoProcessingOption => plan.audio.inputs[1].chain = <<>>
        /\ ~opts.original_sound =>
               /\ ~plan.audio.merge
               /\ Len(plan.audio.inputs) = 1
               /\ plan.audio.inputs[1] = result.proc_audio
               /\ ~HasNode(plan.audio.inputs[1].chain, "volume")

C4_Witness ==
    /\ Returned /\ opts.original_sound /\ NoProcessingOption
    /\ opts.original_sound_volume.kind = "bad"
    /\ plan.audio.merge
    /\ plan.audio.inputs[2].chain[1].args = <<1, 2>>

\* ------------------------------------------------------------------- C5
\* C5 as claimed: a positive avsync puts on both streams a delay of exactly
\* avsync * 1000 ms, a negative one a trim of -avsync seconds, zero nothing.
C5_AsClaimed ==
    Returned =>
        /\ AvsyncIsPositive =>
               \A s \in {result.orig_audio, result.proc_audio} :
                   /\ Len(s.chain) >= 1
                   /\ s.chain[1].name = "adelay"
                   /\ s.chain[1].args[1] * TicksPerMs = opts.avsync.ticks
        /\ AvsyncIsNegative =>
               \A s \in {result.orig_audio, result.proc_audio} :
                   /\ Len(s.chain) >= 1
                   /\ s.chain[1].name = "atrim"
                   /\ s.chain[1].args = <<-opts.avsync.ticks>>
        /\ AvsyncIsZero =>
               \A s \in {result.orig_audio, result.proc_audio} :
                   ~HasNode(s.chain, "adelay") /\ ~HasNode(s.chain, "atrim")

\* C5 amended: a finite positive avsync puts, first on both streams, a delay
\* node whose two channel delays are avsync * 1000 truncated to whole
\* milliseconds (0 ms below one millisecond); a negative one puts a trim of
\* -avsync seconds first on both; zero puts neither on either stream.
C5_SyncOnBothStreams ==
    Returned =>
        /\ AvsyncIsPositive =>
               \A s \in {result.orig_audio, result.proc_audio} :
                   /\ Len(s.chain) >= 1
                   /\ s.chain[1].name = "adelay"
                   /\ Len(s.chain[1].args) = 2
                   /\ s.chain[1].args[1] = s.chain[1].args[2]
                   /\ s.chain[1].args[1] * TicksPerMs <= opts.avsync.ticks
                   /\ (s.chain[1].args[1] + 1) * TicksPerMs > opts.avsync.ticks
        /\ AvsyncIsNegative =>
               \A s \in {result.orig_audio, result.proc_audio} :
                   /\ Len(s.chain) >= 1
                   /\ s.chain[1].name = "atrim"
                   /\ s.chain[1].args = <<-opts.avsync.ticks>>
        /\ AvsyncIsZero =>
               \A s \in {result.orig_audio, result.proc_audio} :
                   ~HasNode(s.chain, "adelay") /\ ~HasNode(s.chain, "atrim")

C5_Witness ==
    /\ Returned /\ AvsyncIsPositive
    /\ opts.avsync.ticks % TicksPerMs # 0
    /\ ~opts.original_sound
    /\ result.orig_audio.chain[1].name = "adelay"
    /\ result.proc_audio.chain[1].name = "adelay"

\* ------------------------------------------------------------------- C6
\* C6: every invocation returns a plan, whatever the option values.
C6_NeverRaises == calls >= 1 => result.status = "returned"

C8_SingleStreamFallback ==
    Returned =>
        /\ fr.audio_streams = 2 =>
               /\ result.orig_audio.sel = "a:0"
               /\ result.proc_audio.sel = "a:1"
        /\ fr.audio_streams = 1 =>
               /\ result.orig_audio.sel = result.proc_audio.sel
               /\ opts.original_sound =>
                      /\ plan.audio.merge
                      /\ plan.audio.inputs[1].sel = plan.audio.inputs[2].sel

\* ------------------------------------------------------------------- C9
\* C9: on both paths movflags is +faststart exactly when
\* buffer_fully_before_playback is set and frag_keyframe+default_base_moof
\* otherwise, listen is 1 and the format mp4; the same call with the flag
\* flipped gives the same plan but for movflags.
C9_ContainerFlags ==
    Returned =>
        /\ opts.buffer_fully_before_playback => plan.movflags = "+faststart"
        /\ ~opts.buffer_fully_before_playback =>
               plan.movflags = "frag_keyframe+default_base_moof"
        /\ plan.listen = 1
        /\ plan.f = "mp4"
        /\ LET flipped == [opts EXCEPT !.buffer_fully_before_playback = ~@]
               other == Call(fr, flipped, IF result.hw THEN "v4l2m2m" ELSE "software_only")
           IN  /\ other.status = "returned"
               /\ other.plan.movflags # plan.movflags
               /\ [other.plan EXCEPT !.movflags = plan.movflags] = plan
               /\ other.orig_audio = result.orig_audio
               /\ other.proc_audio = result.proc_audio

C9_Witness ==
    /\ Returned /\ SidecarPresent /\ opts.buffer_fully_before_playback
    /\ plan.movflags = "+faststart" /\ plan.listen = 1 /\ plan.f = "mp4"

\* ------------------------------------------------------------------ C10
\* C10: the processed stream carries sync compensation, then rubberband, then
\* loudnorm, rubberband exactly when semitones # 0 and loudnorm exactly when
\* normalize is set; the original stream carries sync compensation and then,
\* under remix, volume, never rubberband or loudnorm; the merge consumes both
\* chains, so it comes last.
C10_FilterOrder ==
    Returned =>
        /\ Names(result.proc_audio.chain) =
               SyncNames
                 \o (IF opts.semitones # 0 THEN <<"rubberband">> ELSE <<>>)
                 \o (IF opts.normalize_audio THEN <<"loudnorm">> ELSE <<>>)
        /\ plan.audio.inputs[1] = result.proc_audio
        /\ ~HasNode(result.orig_audio.chain, "rubberband")
        /\ ~HasNode(result.orig_audio.chain, "loudnorm")
        /\ opts.original_sound =>
               /\ plan.audio.merge
               /\ Names(plan.audio.inputs[2].chain) = SyncNames \o <<"volume">>
        /\ ~opts.original_sound => ~plan.audio.merge

C10_Witness ==
    /\ Returned /\ AvsyncIsNegative /\ opts.semitones # 0
    /\ opts.normalize_audio /\ opts.original_sound
    /\ Names(result.proc_audio.chain) = <<"atrim", "rubberband", "loudnorm">>
    /\ Names(plan.audio.inputs[2].chain) = <<"atrim", "volume">>

====
